---- MODULE Spec2Model ----
(***************************************************************************)
(* A model of src/src/main.rs: a chat server that bootstraps an in-memory  *)
(* message log from Postgres, appends to it from a Supabase Realtime       *)
(* change feed, fans every new message out over a tokio broadcast channel  *)
(* to Server-Sent-Events sessions, and accepts new messages over a form    *)
(* POST that inserts into Postgres.                                        *)
(***************************************************************************)
EXTENDS Integers, Sequences, FiniteSets, TLC

\* ------------------------------------------------------------------ bounds

\* Capacity asked of broadcast::channel (100 in the program, scaled down).
ChannelCapacity == 2

\* How many timer keep-alives one SSE session emits at most.
MaxKeepAlive == 1

\* How many undecodable notifications the listener drops at most.
MaxSkip == 1

\* How many decodable notifications the listener handles at most.
MaxSends == 4

\* ------------------------------------------------------------- data model

\* Texts are sequences of characters, so that trimming can be computed.
T_a == <<"a">>
T_b == <<"b">>

\* created_at::text, the timestamp n rendered as text.
TsText(n) == <<"ts", n>>

\* struct Message
Msg(i, t, c) == [id |-> i, text |-> t, created_at |-> c]

\* A row of chat_public_demo: id (serial), text, created_at (timestamp).
Row(i, t, c) == [id |-> i, text |-> t, created_at |-> c]

\* The tables the Durable Store may hold when the process starts.
InitialTables == { <<>>, << Row(1, T_a, 1) >> }

\* insert_payload.new: the column map of an insert notification.  The feed
\* may deliver the same row twice, rows out of id order, a map with an
\* extra column, and maps that lack a column of Message.
ValidPayloads ==
    { [id |-> 1, text |-> T_a, created_at |-> TsText(1)],
      [id |-> 2, text |-> T_b, created_at |-> TsText(2), extra |-> 0] }

MalformedPayloads ==
    { [id |-> 2, created_at |-> TsText(2)],
      [text |-> T_b, created_at |-> TsText(2)] }

Payloads == ValidPayloads \cup MalformedPayloads

\* serde_json::from_value::<Message>: every field of Message must be
\* present; unknown fields are ignored.  The result is <<msg>> for Ok(msg)
\* and <<>> for Err.
Decode(p) ==
    IF {"id", "text", "created_at"} \subseteq DOMAIN p
    THEN << Msg(p.id, p.text, p.created_at) >>
    ELSE <<>>

\* usize::next_power_of_two
RECURSIVE PowerOfTwoFrom(_, _)
PowerOfTwoFrom(p, n) == IF p >= n THEN p ELSE PowerOfTwoFrom(2 * p, n)

NextPowerOfTwo(n) == PowerOfTwoFrom(1, n)

\* The number of slots of the broadcast channel: tokio rounds the capacity
\* asked for up to a power of two.
BufferLen == NextPowerOfTwo(ChannelCapacity)


\* The POST /messages requests.
Requests == {"r1", "r2"}

\* The `text` fields a form may carry.
FormTexts == { <<>>, <<" ">>, <<"a">>, <<" ", "a">> }

\* The clients that load the page and open /events.
Sessions == {"A", "B"}

\* ------------------------------------------------------------------ state

VARIABLES
    main_pc,      \* where main() is: "query", "spawn", "bind", "serving", "aborted"
    db_rows,      \* the rows of chat_public_demo, in insertion order
    messages,     \* AppState.messages: Vec<Message>
    tx,           \* AppState.tx: every message the channel accepted, oldest first
    listener_pc,  \* where start_realtime_listener is
    message,      \* its local `message`: <<>> or <<msg>>
    nskip,        \* how many notifications it dropped as undecodable
    sse,          \* per client: its page load and its /events session
    req,          \* per POST /messages request: where submit_message is
    receivers     \* the broadcast::Receiver values that exist

vars == <<main_pc, db_rows, messages, tx, listener_pc, message, nskip, sse, req,
          receivers>>

\* The receiver count of the channel: `_rx` of main, which lives as long
\* as main does, and the receiver of every stream that was not dropped.
ReceiverCount == Cardinality(receivers)

\* ---------------------------------------------------------------- main()

\* Insertion sort of rows by created_at: ORDER BY created_at ASC.
RECURSIVE InsertByCreatedAt(_, _)
InsertByCreatedAt(r, rows) ==
    IF rows = <<>> THEN <<r>>
    ELSE IF r.created_at < Head(rows).created_at THEN <<r>> \o rows
    ELSE <<Head(rows)>> \o InsertByCreatedAt(r, Tail(rows))

RECURSIVE OrderByCreatedAt(_)
OrderByCreatedAt(rows) ==
    IF rows = <<>> THEN <<>>
    ELSE InsertByCreatedAt(rows[Len(rows)], OrderByCreatedAt(SubSeq(rows, 1, Len(rows) - 1)))

\* The rows of the bootstrap query mapped to Message values.
LoadMessages(rows) ==
    [k \in 1..Len(rows) |->
        Msg(OrderByCreatedAt(rows)[k].id,
            OrderByCreatedAt(rows)[k].text,
            TsText(OrderByCreatedAt(rows)[k].created_at))]

MainQueryOk ==
    /\ main_pc = "query"
    /\ messages' = LoadMessages(db_rows)
    /\ main_pc' = "spawn"
    /\ UNCHANGED <<db_rows, tx, listener_pc, message, nskip, sse, req, receivers>>

\* client.query(..).await? fails: main returns the error.
MainQueryErr ==
    /\ main_pc = "query"
    /\ main_pc' = "aborted"
    /\ UNCHANGED <<db_rows, messages, tx, listener_pc, message, nskip, sse, req, receivers>>

\* tokio::spawn(start_realtime_listener(state_clone))
MainSpawnListener ==
    /\ main_pc = "spawn"
    /\ listener_pc' = "connect"
    /\ main_pc' = "bind"
    /\ UNCHANGED <<db_rows, messages, tx, message, nskip, sse, req, receivers>>

MainBindOk ==
    /\ main_pc = "bind"
    /\ main_pc' = "serving"
    /\ UNCHANGED <<db_rows, messages, tx, listener_pc, message, nskip, sse, req, receivers>>

\* TcpListener::bind(..).await? fails: main returns, the runtime is dropped
\* and the spawned listener with it.
MainBindErr ==
    /\ main_pc = "bind"
    /\ main_pc' = "aborted"
    /\ UNCHANGED <<db_rows, messages, tx, listener_pc, message, nskip, sse, req, receivers>>

\* The runtime is alive: spawned tasks make progress.
RuntimeAlive == main_pc \in {"bind", "serving"}

\* ------------------------------------------------ start_realtime_listener

\* RealtimeClient::new, connect, channel, on_postgres_changes, subscribe.
ListenerConnectOk ==
    /\ RuntimeAlive
    /\ listener_pc = "connect"
    /\ listener_pc' = "recv"
    /\ UNCHANGED <<main_pc, db_rows, messages, tx, message, nskip, sse, req, receivers>>

\* One of the `?` of the connection sequence returns the error; the spawned
\* task logs it and ends.
ListenerConnectErr ==
    /\ RuntimeAlive
    /\ listener_pc = "connect"
    /\ listener_pc' = "returned_err"
    /\ UNCHANGED <<main_pc, db_rows, messages, tx, message, nskip, sse, req, receivers>>

\* What the loop does after a payload that does not decode.
OnDecodeErrorReturn == "returned_err"

OnDecodeError == "recv"

\* rx.recv().await yields Some(Insert(p)) and p decodes: the loop goes on
\* to take the write lock of messages.
ListenerRecvValid(p) ==
    /\ RuntimeAlive
    /\ listener_pc = "recv"
    /\ Len(tx) < MaxSends
    /\ Decode(p) # <<>>
    /\ message' = Decode(p)
    /\ listener_pc' = "lock"
    /\ UNCHANGED <<main_pc, db_rows, messages, tx, nskip, sse, req, receivers>>

\* rx.recv().await yields Some(Insert(p)) and p does not decode: the error
\* is logged and the loop continues.
ListenerRecvMalformed(p) ==
    /\ RuntimeAlive
    /\ listener_pc = "recv"
    /\ nskip < MaxSkip
    /\ Decode(p) = <<>>
    /\ nskip' = nskip + 1
    /\ listener_pc' = OnDecodeError
    /\ UNCHANGED <<main_pc, db_rows, messages, tx, message, sse, req, receivers>>

\* rx.recv().await yields None (the feed is gone): `while let` ends and the
\* function returns Ok(()).
ListenerRecvNone ==
    /\ RuntimeAlive
    /\ listener_pc = "recv"
    /\ listener_pc' = "returned_ok"
    /\ UNCHANGED <<main_pc, db_rows, messages, tx, message, nskip, sse, req, receivers>>

\* The order of the steps of the Insert arm: take the write lock, push to
\* the Vec, send to the channel, and back to rx.recv() (the guard is
\* dropped at the end of the arm).
StepAfterSendFirst(pc) ==
    CASE pc = "lock" -> "send"
      [] pc = "send" -> "push"
      [] pc = "push" -> "recv"

StepAfter(pc) ==
    CASE pc = "lock" -> "push"
      [] pc = "push" -> "send"
      [] pc = "send" -> "recv"

\* `message` is a local of the arm: it is gone when the arm ends.
LocalAfter(pc) == IF StepAfter(pc) = "recv" THEN <<>> ELSE message

\* state.messages.write().await: tokio's RwLock is fair and readers hold it
\* without awaiting, so the writer gets it.
ListenerLock ==
    /\ RuntimeAlive
    /\ listener_pc = "lock"
    /\ listener_pc' = StepAfter("lock")
    /\ UNCHANGED <<main_pc, db_rows, messages, tx, message, nskip, sse, req, receivers>>

\* messages.push(message.clone())
Push(log, m) == Append(log, m)

ListenerPush ==
    /\ RuntimeAlive
    /\ listener_pc = "push"
    /\ messages' = Push(messages, message[1])
    /\ message' = LocalAfter("push")
    /\ listener_pc' = StepAfter("push")
    /\ UNCHANGED <<main_pc, db_rows, tx, nskip, sse, req, receivers>>

\* A send that stores nothing.
SendNothing(chan, m) == chan

\* broadcast::Sender::send: with no receiver the value is returned in an
\* error (ignored by `let _ =`), otherwise it is stored for every receiver.
Send(chan, m) == IF ReceiverCount = 0 THEN chan ELSE Append(chan, m)

\* Whether send must wait for a receiver that has BufferLen unread values.
SendReadyWhenRoom ==
    \A s \in Sessions : sse[s].st = "live" => Len(tx) - sse[s].next < BufferLen

\* broadcast::Sender::send is not async: it never waits, whatever the
\* receivers have read.
SendReady == TRUE

\* let _ = state.tx.send(message);
ListenerSend ==
    /\ RuntimeAlive
    /\ listener_pc = "send"
    /\ SendReady
    /\ tx' = Send(tx, message[1])
    /\ message' = LocalAfter("send")
    /\ listener_pc' = StepAfter("send")
    /\ UNCHANGED <<main_pc, db_rows, messages, nskip, sse, req, receivers>>

\* ------------------------------------------------------------ HTTP clients

\* The comment text of both the Err branch of the stream and the KeepAlive.
KeepAliveText == <<"k", "e", "e", "p", "a", "l", "i", "v", "e">>

\* sse::Event::default().data(text)
DataEvent(text) == [kind |-> "data", text |-> text, cause |-> "message"]

\* sse::Event::default().comment("keepalive"); `cause` records which code
\* path emitted it and is not part of what goes over the wire.
CommentEvent(cause) == [kind |-> "comment", text |-> KeepAliveText, cause |-> cause]

\* What the client can see of an item.
Wire(item) == [kind |-> item.kind, text |-> item.text]

\* The write guard if it were dropped after the push, before the send.
WriteLockedUntilPushed == listener_pc = "push"

\* The write lock of messages is held by the listener.
WriteLocked == listener_pc \in {"push", "send"}

\* index_handler: state.messages.read().await, then one <div> per message
\* in Vec order.  `snap` is how many messages the page shows (-1: no page
\* was loaded); the Vec only grows at its end, so the page shows its first
\* `snap` messages.
IndexHandler(s) ==
    /\ main_pc = "serving"
    /\ sse[s].st = "none"
    /\ ~WriteLocked
    /\ sse' = [sse EXCEPT ![s].st = "page", ![s].snap = Len(messages)]
    /\ UNCHANGED <<main_pc, db_rows, messages, tx, listener_pc, message, nskip, req, receivers>>

\* The texts of the page of client s, in page order.
PageTexts(s) == [k \in 1..sse[s].snap |-> messages[k].text]

\* sse_handler: let rx = state.tx.subscribe(); a new receiver starts at the
\* tail of the channel.
\* Where the cursor of a new receiver would start if it replayed the buffer.
SubscribeAtOldest(tail) == IF tail > BufferLen THEN tail - BufferLen ELSE 0

\* broadcast::Sender::subscribe: the cursor of the new receiver is the tail.
SubscribeAt(tail) == tail

SseHandler(s) ==
    /\ main_pc = "serving"
    /\ sse[s].st \in {"none", "page"}
    /\ sse' = [sse EXCEPT ![s].st = "live", ![s].next = SubscribeAt(Len(tx)),
                          ![s].start = Len(tx)]
    /\ receivers' = receivers \cup {s}
    /\ UNCHANGED <<main_pc, db_rows, messages, tx, listener_pc, message, nskip, req>>

\* broadcast::Receiver::recv: the receiver lagged when the slot of its
\* cursor has been overwritten, i.e. more than BufferLen values were sent
\* past it.
Lagged(next, tail) == tail - next > BufferLen

\* Where a lagged receiver resumes: at the oldest value still in the buffer.
LagResumeAtTail(tail) == tail

LagResume(tail) == tail - BufferLen

\* History: how many values had been sent when the first rx.recv() of
\* session s returned (-1 while none has).
FirstRecv(s) == IF sse[s].first < 0 THEN Len(tx) ELSE sse[s].first

\* The cursor of a receiver after it returned the value at its cursor.
AdvanceNot(next) == next

Advance(next) == next + 1

\* What the stream does after an item: Some((Ok(event), rx)) keeps it
\* going ("live"), None would end it ("ended").
OnRecvOk == "live"

OnRecvErrEnd == "ended"

OnRecvErr == "live"

\* The Ok(message) arm of the stream.  `got` is history: the positions in
\* the sequence of sent messages of the messages received.
SseRecvOk(s) ==
    /\ main_pc = "serving"
    /\ sse[s].st = "live"
    /\ sse[s].next < Len(tx)
    /\ ~Lagged(sse[s].next, Len(tx))
    /\ sse' = [sse EXCEPT ![s].st = OnRecvOk,
                          ![s].next = Advance(@),
                          ![s].first = FirstRecv(s),
                          ![s].got = Append(@, sse[s].next + 1),
                          ![s].out = Append(@, DataEvent(tx[sse[s].next + 1].text))]
    /\ UNCHANGED <<main_pc, db_rows, messages, tx, listener_pc, message, nskip, req, receivers>>

\* The Err(_) arm of the stream, for RecvError::Lagged.
SseRecvLagged(s) ==
    /\ main_pc = "serving"
    /\ sse[s].st = "live"
    /\ Lagged(sse[s].next, Len(tx))
    /\ sse' = [sse EXCEPT ![s].st = OnRecvErr,
                          ![s].next = LagResume(Len(tx)),
                          ![s].first = FirstRecv(s),
                          ![s].out = Append(@, CommentEvent("recv_err"))]
    /\ UNCHANGED <<main_pc, db_rows, messages, tx, listener_pc, message, nskip, req, receivers>>

\* Sse::keep_alive: the stream is polled first and only when it is pending
\* (the receiver has read everything sent) can the interval elapse and a
\* keep-alive comment be emitted.
SseKeepAlive(s) ==
    /\ main_pc = "serving"
    /\ sse[s].st = "live"
    /\ sse[s].next = Len(tx)
    /\ sse[s].ka < MaxKeepAlive
    /\ sse' = [sse EXCEPT ![s].ka = @ + 1,
                          ![s].out = Append(@, CommentEvent("timer"))]
    /\ UNCHANGED <<main_pc, db_rows, messages, tx, listener_pc, message, nskip, req, receivers>>

\* A session whose stream was dropped: nothing of it is left in the server.
ClosedSession ==
    [st |-> "closed", snap |-> -1, start |-> 0, next |-> 0, ka |-> 0,
     first |-> -1, got |-> <<>>, out |-> <<>>]

\* The receivers left when the stream of s is dropped without its receiver
\* being dropped.
DropReceiverLeak(s) == receivers

\* Drop of the stream state: the broadcast::Receiver it owns is dropped.
DropReceiver(s) == receivers \ {s}

\* The client disconnects: axum drops the stream and with it the receiver.
SseDisconnect(s) ==
    /\ main_pc = "serving"
    /\ sse[s].st = "live"
    /\ sse' = [sse EXCEPT ![s] = ClosedSession]
    /\ receivers' = DropReceiver(s)
    /\ UNCHANGED <<main_pc, db_rows, messages, tx, listener_pc, message, nskip, req>>

\* --------------------------------------------------------- submit_message

\* StatusCode::NO_CONTENT
NO_CONTENT == 204

\* The text submit_message binds to $1 of the INSERT: form.text as received.
InsertText(text) == text

\* The id the serial column gives the next row, and the time of its insert.
NextId(rows) == Len(rows) + 1

Now(rows) == Len(rows) + 1

\* The response of submit_message after the insert ended with `result`.
Response(result) == NO_CONTENT

\* The request arrives with a form; the handler takes the read lock of
\* db_client and awaits client.execute(INSERT ..).
SubmitMessage(r, text) ==
    /\ main_pc = "serving"
    /\ req[r].pc = "idle"
    /\ req' = [req EXCEPT ![r] = [pc |-> "execute", text |-> InsertText(text),
                                  result |-> "none", status |-> 0]]
    /\ UNCHANGED <<main_pc, db_rows, messages, tx, listener_pc, message, nskip, sse, receivers>>

\* The requests that hold a read guard of state.db_client: `client` is taken
\* before execute is called and dropped when submit_message returns.
DbClientReaders == {r \in Requests : req[r].pc = "execute"}

\* The requests suspended in client.execute(..).await.
AwaitingExecute == {r \in Requests : req[r].pc = "execute"}

\* The log after a successful insert if submit_message pushed the text.
LogAfterInsertPushed(log, text) == Append(log, Msg(Len(log) + 1, text, TsText(0)))

\* The log after a successful insert: submit_message does not touch
\* state.messages.
LogAfterInsert(log, text) == log

\* The insert succeeds: Ok(_) is logged, the lock guard is dropped at return.
ExecuteOk(r) ==
    /\ main_pc = "serving"
    /\ req[r].pc = "execute"
    /\ db_rows' = Append(db_rows, Row(NextId(db_rows), req[r].text, Now(db_rows)))
    /\ messages' = LogAfterInsert(messages, req[r].text)
    /\ req' = [req EXCEPT ![r].pc = "done", ![r].result = "ok",
                          ![r].status = Response("ok")]
    /\ UNCHANGED <<main_pc, tx, listener_pc, message, nskip, sse, receivers>>

\* The insert fails: Err(e) is logged.
ExecuteErr(r) ==
    /\ main_pc = "serving"
    /\ req[r].pc = "execute"
    /\ req' = [req EXCEPT ![r].pc = "done", ![r].result = "err",
                          ![r].status = Response("err")]
    /\ UNCHANGED <<main_pc, db_rows, messages, tx, listener_pc, message, nskip, sse, receivers>>

\* ---------------------------------------------------------- specification

Init ==
    /\ main_pc = "query"
    /\ db_rows \in InitialTables
    /\ messages = <<>>
    /\ tx = <<>>
    /\ listener_pc = "idle"
    /\ message = <<>>
    /\ nskip = 0
    /\ sse = [s \in Sessions |->
                [st |-> "none", snap |-> -1, start |-> 0, next |-> 0, ka |-> 0,
                 first |-> -1, got |-> <<>>, out |-> <<>>]]
    /\ receivers = {"_rx"}
    /\ req = [r \in Requests |->
                [pc |-> "idle", text |-> <<>>, result |-> "none", status |-> 0]]

\* main()
Main ==
    \/ MainQueryOk
    \/ MainQueryErr
    \/ MainSpawnListener
    \/ MainBindOk
    \/ MainBindErr

\* start_realtime_listener
Listener ==
    \/ ListenerConnectOk
    \/ ListenerConnectErr
    \/ \E p \in Payloads : ListenerRecvValid(p)
    \/ \E p \in Payloads : ListenerRecvMalformed(p)
    \/ ListenerRecvNone
    \/ ListenerLock
    \/ ListenerPush
    \/ ListenerSend

\* index_handler and sse_handler, for client s
Client(s) ==
    \/ IndexHandler(s)
    \/ SseHandler(s)
    \/ SseRecvOk(s)
    \/ SseRecvLagged(s)
    \/ SseKeepAlive(s)
    \/ SseDisconnect(s)

\* submit_message
WritePath ==
    \/ \E r \in Requests, t \in FormTexts : SubmitMessage(r, t)
    \/ \E r \in Requests : ExecuteOk(r)
    \/ \E r \in Requests : ExecuteErr(r)

\* The whole program.
Next ==
    \/ Main
    \/ Listener
    \/ \E s \in Sessions : Client(s)
    \/ WritePath

Spec == Init /\ [][Next]_vars

\* The program with one client, A, and no write request.
NextStream ==
    \/ Main
    \/ Listener
    \/ Client("A")

StreamSpec == Init /\ [][NextStream]_vars

\* The program with write requests and no client of the page or the stream.
NextWrite ==
    \/ Main
    \/ ListenerConnectOk
    \/ ListenerConnectErr
    \/ WritePath

WriteSpec == Init /\ [][NextWrite]_vars

\* The program with one client, A, that opens /events without loading the
\* page, and no write request.
NextFeed ==
    \/ Main
    \/ Listener
    \/ SseHandler("A")
    \/ SseRecvOk("A")
    \/ SseRecvLagged("A")
    \/ SseKeepAlive("A")
    \/ SseDisconnect("A")

FeedSpec == Init /\ [][NextFeed]_vars

\* The Insert arm of the listener, from the write lock to the send.
InsertArm ==
    \/ ListenerLock
    \/ ListenerPush
    \/ ListenerSend

\* That program with the scheduling the runtime gives the listener task: a
\* step of the Insert arm that can be taken is taken.  Nothing is assumed
\* of the client.
FairFeedSpec == FeedSpec /\ WF_vars(InsertArm)

\* The steps of the listener on a connected feed that delivers well-formed
\* notifications only.
Ingest ==
    \/ ListenerConnectOk
    \/ ListenerConnectErr
    \/ \E p \in Payloads : ListenerRecvValid(p)
    \/ InsertArm

\* The program with one client, A, of the page and of the stream, and one
\* write request, r1.
NextFrame ==
    \/ Main
    \/ Ingest
    \/ IndexHandler("A")
    \/ SseHandler("A")
    \/ SseRecvOk("A")
    \/ SseRecvLagged("A")
    \/ \E t \in FormTexts : SubmitMessage("r1", t)
    \/ ExecuteOk("r1")
    \/ ExecuteErr("r1")

FrameSpec == Init /\ [][NextFrame]_vars

\* A session of client s on /events, opened without loading the page.
Session(s) ==
    \/ SseHandler(s)
    \/ SseRecvOk(s)
    \/ SseRecvLagged(s)
    \/ SseDisconnect(s)

\* The program with two clients that open /events, and no write request.
NextPair ==
    \/ Main
    \/ Ingest
    \/ \E s \in Sessions : Session(s)

PairSpec == Init /\ [][NextPair]_vars

\* The program with one client, A, that opens /events without loading the
\* page, a feed that delivers well-formed notifications only, and no write
\* request.
NextDeliver ==
    \/ Main
    \/ Ingest
    \/ Session("A")

DeliverSpec == Init /\ [][NextDeliver]_vars

\* The stream of s polls its receiver.
SseRecv(s) ==
    \/ SseRecvOk(s)
    \/ SseRecvLagged(s)

\* That program with the scheduling the runtime gives its tasks: a step of
\* the listener's Insert arm that can be taken is taken, and a stream whose
\* receiver has something to return is polled.
FairDeliverSpec == DeliverSpec /\ WF_vars(InsertArm) /\ WF_vars(SseRecv("A"))

\* ------------------------------------------------------------- properties

\* How many entries of the sequence of messages q have id i.
CountId(q, i) == Cardinality({k \in 1..Len(q) : q[k].id = i})

\* The ids the feed can deliver.
FeedIds == {p.id : p \in ValidPayloads}

\* m is an entry of the Shared Log.
InLog(m) == \E k \in 1..Len(messages) : messages[k] = m

\* The items of session s that its stream produced (not the keep-alive timer).
StreamItems(s) == SelectSeq(sse[s].out, LAMBDA it : it.cause # "timer")

\* C1. Idempotent append: once the listener has processed the notification
\* of an id two or more times, the log holds exactly one message of that id.
C1_IdempotentAppend ==
    listener_pc = "recv" =>
        \A i \in FeedIds : CountId(tx, i) >= 2 => CountId(messages, i) = 1

\* C2. Order preservation: when the ids of the log are pairwise distinct,
\* the log is strictly ascending by id, whatever the order of arrival.
C2_LogSortedById ==
    (\A j, k \in 1..Len(messages) : j # k => messages[j].id # messages[k].id)
        => \A j, k \in 1..Len(messages) : j < k => messages[j].id < messages[k].id

\* C3. Append before publish: every message the channel holds or held is
\* in the log, and so is the message of every Data item a client received.
C3_AppendBeforePublish ==
    /\ \A k \in 1..Len(tx) : InLog(tx[k])
    /\ \A s \in Sessions : \A k \in 1..Len(sse[s].out) :
          sse[s].out[k].kind = "data"
              => \E j \in 1..Len(messages) : messages[j].text = sse[s].out[k].text

C3_Witness ==
    /\ Len(tx) >= 2
    /\ \E k \in 1..Len(sse["A"].out) : sse["A"].out[k].kind = "data"

\* The items a receiver that lagged reads when nothing more is sent: the
\* item of the Err arm, then the last BufferLen messages sent, oldest first.
AfterLag ==
    <<CommentEvent("recv_err")>>
        \o [k \in 1..BufferLen |-> DataEvent(tx[Len(tx) - BufferLen + k].text)]

\* More than BufferLen messages were sent between the subscription of s and
\* its first read, and none since.
LaggedBeforeFirstRead(s) ==
    /\ sse[s].st = "live"
    /\ sse[s].first >= 0
    /\ sse[s].first - sse[s].start > BufferLen
    /\ Len(tx) = sse[s].first

C5_ListenerSurvivesFeedLoss == listener_pc # "returned_ok"

\* C6. A notification that does not decode is skipped: the step that drops
\* it changes neither the log nor the channel nor any session and leaves
\* the listener awaiting the next notification; the listener is never
\* ended by it.
C6_MalformedSkipped ==
    /\ [][nskip' # nskip =>
            /\ messages' = messages
            /\ tx' = tx
            /\ sse' = sse
            /\ listener_pc' = "recv"]_vars
    /\ [](nskip > 0 => listener_pc # "returned_err")

\* After a notification was dropped, a later one has been appended and is
\* about to be published.
C6_Witness ==
    /\ nskip > 0
    /\ listener_pc = "send"
    /\ InLog(message[1])
    /\ sse["A"].st = "live"

\* C7. A failed insert is answered with a non-success status.
C7_WriteFailureSurfaced ==
    \A r \in Requests :
        (req[r].pc = "done" /\ req[r].result = "err")
            => req[r].status \notin 200..299

\* C8. A failed start is fatal: when the bootstrap query failed or the
\* listener could not connect and subscribe, the process does not serve.
C8_StartupAbort == listener_pc = "returned_err" => main_pc # "serving"

\* C9. Publishing never waits for a subscriber: the send step can be taken
\* whatever the sessions have read; when it is taken the message is in the
\* log and becomes the newest of the channel while the listener returns to
\* awaiting the feed; and a decoded notification always gets there (unless
\* the process ends first).
C9_NonBlockingPublish ==
    /\ [](listener_pc = "send" /\ RuntimeAlive => ENABLED ListenerSend)
    /\ [][listener_pc = "send" /\ listener_pc' # "send" =>
            /\ listener_pc' = "recv"
            /\ InLog(message[1])
            /\ tx' = Append(tx, message[1])]_vars
    /\ (listener_pc \in {"lock", "push", "send"})
          ~> (main_pc = "aborted" \/ listener_pc = "recv")

\* The channel went on accepting messages past a session that reads nothing.
C9_Witness ==
    /\ sse["A"].st = "live"
    /\ sse["A"].out = <<>>
    /\ Len(tx) - sse["A"].next > BufferLen
    /\ listener_pc = "recv"

\* Whitespace, for the characters of FormTexts.
IsSpace(c) == c = " "

\* Trimming: the text without its leading and trailing whitespace.
RECURSIVE TrimStart(_)
TrimStart(t) ==
    IF t # <<>> /\ IsSpace(Head(t)) THEN TrimStart(Tail(t)) ELSE t

RECURSIVE TrimEnd(_)
TrimEnd(t) ==
    IF t # <<>> /\ IsSpace(t[Len(t)]) THEN TrimEnd(SubSeq(t, 1, Len(t) - 1)) ELSE t

Trim(t) == TrimEnd(TrimStart(t))

\* C10. Every insert the write path issues carries a trimmed, non-empty text.
C10_InsertTextValidated ==
    \A r \in Requests :
        req[r].pc \in {"execute", "done"}
            => (req[r].text # <<>> /\ req[r].text = Trim(req[r].text))

\* C11.  Single writer of the Shared Log: after the startup load, the log
\* changes only in the listener's push of the decoded notification, which
\* appends that one message; no step of submit_message, index_handler or
\* sse_handler (the handler or its stream) changes the log.
C11_SingleWriter ==
    [][messages' # messages =>
          \/ main_pc = "query"
          \/ /\ listener_pc = "push"
             /\ messages' = Append(messages, message[1])
             /\ req' = req
             /\ sse' = sse]_vars

\* A write request succeeded, A loaded the page and reads the stream, and
\* the listener has pushed a message that A received.
C11_Witness ==
    /\ req["r1"].result = "ok"
    /\ sse["A"].st = "live"
    /\ sse["A"].snap >= 0
    /\ Len(sse["A"].got) >= 1

\* The Data items client s was sent, in the order they were sent.
DataItems(s) == SelectSeq(sse[s].out, LAMBDA it : it.kind = "data")

\* The positions, in the sequence of sent messages, that client s received.
Received(s) == {sse[s].got[k] : k \in 1..Len(sse[s].got)}

\* C12.  Same relative order for every subscriber: the Data items of a
\* session are, one for one and in order, the texts of sent messages at
\* strictly increasing positions of the send order, so two messages sent in
\* one order are received in that order by every session that receives
\* both.
C12_SameRelativeOrder ==
    \A s \in Sessions :
        /\ Len(DataItems(s)) = Len(sse[s].got)
        /\ \A k \in 1..Len(sse[s].got) :
              /\ sse[s].got[k] \in 1..Len(tx)
              /\ DataItems(s)[k].text = tx[sse[s].got[k]].text
        /\ \A j, k \in 1..Len(sse[s].got) :
              j < k <=> sse[s].got[j] < sse[s].got[k]

\* Both sessions are live and both received the same two sent messages.
C12_Witness ==
    /\ sse["A"].st = "live"
    /\ sse["B"].st = "live"
    /\ sse["A"].start # sse["B"].start
    /\ Cardinality(Received("A") \cap Received("B")) >= 2

\* C13.  No retroactive delivery: a session receives no message that was
\* sent before its subscribe (`start` is how many had been sent then);
\* those messages are in the Shared Log, where a page load finds them.
C13_NoRetroactiveDelivery ==
    \A s \in Sessions :
        sse[s].st = "live" =>
            /\ \A k \in 1..Len(sse[s].got) : sse[s].got[k] > sse[s].start
            /\ \A p \in 1..sse[s].start : InLog(tx[p])

\* A session that subscribed after two sends has received a message.
C13_Witness ==
    \E s \in Sessions :
        /\ sse[s].st = "live"
        /\ sse[s].start >= 2
        /\ Len(sse[s].got) >= 1

\* C14.  Gap is a distinct signal: what a session is sent when its
\* receiver has lagged differs, on the wire, from every Data item and from
\* every keepalive of the timer.
C14_GapDistinct ==
    \A s \in Sessions :
        \A j, k \in 1..Len(sse[s].out) :
            (sse[s].out[j].cause = "recv_err" /\ sse[s].out[k].cause # "recv_err")
                => Wire(sse[s].out[j]) # Wire(sse[s].out[k])

\* C15.  The server never ends a session: every step of a live stream other
\* than the client's disconnect (a received message, a lag, the keep-alive
\* timer) sends exactly one item and leaves the stream live, so a session
\* that lagged goes on receiving.
C15_SessionNotEndedByServer ==
    /\ [](\A s \in Sessions : sse[s].st # "ended")
    /\ [][\A s \in Sessions :
              (sse[s].st = "live" /\ sse'[s] # sse[s] /\ sse'[s].st # "closed")
                  => /\ sse'[s].st = "live"
                     /\ Len(sse'[s].out) = Len(sse[s].out) + 1
                     /\ SubSeq(sse'[s].out, 1, Len(sse[s].out)) = sse[s].out]_vars

\* A live session that lagged and received a message afterwards.
C15_Witness ==
    /\ sse["A"].st = "live"
    /\ \E j, k \in 1..Len(sse["A"].out) :
          /\ j < k
          /\ sse["A"].out[j].cause = "recv_err"
          /\ sse["A"].out[k].kind = "data"

\* C16.  No leaked subscription: the receivers of the channel are `_rx` of
\* main and the receiver of each live session, and of no session that has
\* ended, in every state.
C16_NoLeakedSubscription ==
    receivers = {"_rx"} \cup {s \in Sessions : sse[s].st = "live"}

\* The session of A has ended, that of B is live, and the listener is about
\* to send.
C16_Witness ==
    /\ sse["A"].st = "closed"
    /\ sse["B"].st = "live"
    /\ listener_pc = "send"

\* C17.  No lock across a suspension point: the listener waiting for the
\* next notification does not hold the write lock of the log, and a request
\* waiting for the database to answer its insert holds no guard of
\* state.db_client.  (A stream takes no lock.)
C17_NoLockAcrossAwait ==
    /\ listener_pc = "recv" => ~WriteLocked
    /\ AwaitingExecute \cap DbClientReaders = {}

\* How many messages the startup load put in the log: the log is those
\* messages, then the sent ones, then the one pushed and not yet sent.
BootLen == Len(messages) - Len(tx) - (IF listener_pc = "send" THEN 1 ELSE 0)

\* Client s loaded the page, then opened the stream, and has never lagged.
ReadsSnapshotThenTail(s) ==
    /\ sse[s].st = "live"
    /\ sse[s].snap >= 0
    /\ ~Lagged(sse[s].next, Len(tx))
    /\ \A k \in 1..Len(sse[s].out) : sse[s].out[k].cause # "recv_err"

\* C18.  Snapshot plus live tail is complete: for a client that loaded the
\* page, then subscribed, and never lags, every entry of the log is on its
\* page or was sent after its subscribe (and so was received as Data or is
\* waiting in the channel for it).
C18_SnapshotPlusTailComplete ==
    \A s \in Sessions :
        ReadsSnapshotThenTail(s) =>
            \A j \in 1..Len(messages) :
                j <= sse[s].snap \/ j - BootLen > sse[s].start

\* C19.  Snapshot and live tail never overlap: a page never shows a message
\* that is pushed and not yet sent, and a client that loaded the page and
\* subscribed afterwards receives as Data only entries of the log beyond
\* those its page shows.
C19_SnapshotTailDisjoint ==
    \A s \in Sessions :
        sse[s].snap >= 0 =>
            /\ sse[s].snap <= BootLen + Len(tx)
            /\ \A k \in 1..Len(sse[s].got) : BootLen + sse[s].got[k] > sse[s].snap

\* A page that shows a message the listener pushed, and the stream opened
\* after it has delivered a message.
C19_Witness ==
    /\ sse["A"].st = "live"
    /\ sse["A"].snap > BootLen
    /\ Len(sse["A"].got) >= 1

\* Client s has received the message sent at position p as a Data item
\* with that message's text.
EmittedData(s, p) ==
    \E k \in 1..Len(sse[s].got) :
        /\ sse[s].got[k] = p
        /\ k <= Len(DataItems(s))
        /\ DataItems(s)[k].text = tx[p].text

\* Client s has lagged.
HasLagged(s) == \E k \in 1..Len(sse[s].out) : sse[s].out[k].cause = "recv_err"

\* C20.  Delivery to every live subscriber: the Insert arm of the listener
\* adds exactly the decoded message to the log, then adds it to the sent
\* messages, ahead of the cursor of every live session, whether or not a
\* session is attached; and a session attached before a message was sent
\* eventually emits it as Data with its text, unless it lags or the client
\* disconnects.
C20_DeliveredToLiveSubscribers ==
    /\ [][listener_pc = "push" /\ listener_pc' # "push"
              => messages' = Append(messages, message[1])]_vars
    /\ [][listener_pc = "send" /\ listener_pc' # "send"
              => /\ tx' = Append(tx, message[1])
                 /\ \A s \in Sessions :
                       sse[s].st = "live" => sse[s].next < Len(tx')]_vars
    /\ \A p \in 1..MaxSends :
          (sse["A"].st = "live" /\ sse["A"].start < p /\ p <= Len(tx))
              ~> (EmittedData("A", p) \/ HasLagged("A") \/ sse["A"].st # "live")

\* A live session that never lagged has received two messages sent after
\* its subscribe, and a message was sent before any session was attached.
C20_Witness ==
    /\ sse["A"].st = "live"
    /\ sse["A"].start >= 1
    /\ ~HasLagged("A")
    /\ Len(sse["A"].got) >= 2
    /\ EmittedData("A", Len(tx))

====
